---- MODULE Spec2Model ----
(***************************************************************************)
(* Model of probe-verus' merge-atoms engine (src/commands/merge_atoms.rs). *)
(*                                                                         *)
(* Identifier strings are sequences of one-character strings, so that the  *)
(* normalizer and the BTreeMap<String, _> key order (bytewise              *)
(* lexicographic) are computed rather than assumed.  An atoms map is a     *)
(* function from a finite set of keys to atom records.                     *)
(***************************************************************************)
EXTENDS Integers, Sequences, FiniteSets, TLC

VARIABLES maps, pc, maps_iter, base, incoming, stats, last,  \* merge_atoms_maps
          nz,                                               \* the normalizer
          cmd,                                              \* cmd_merge_atoms
          fm,                                               \* find_matching_atom
          pm,                                               \* path_utils
          mf,                                               \* match_functions_to_atoms
          sc                                                \* ScipCache

\* The state of a run of merge_atoms_maps.
mergeVars == <<maps, pc, maps_iter, base, incoming, stats, last>>

\* The state of the other components, which a run of merge_atoms_maps
\* neither reads nor writes.
notMergeVars == <<nz, cmd, fm, pm, mf, sc>>

vars ==
    <<maps, pc, maps_iter, base, incoming, stats, last, nz, cmd, fm, pm, mf, sc>>

(***************************************************************************)
(* Bounds of the model.                                                    *)
(***************************************************************************)
\* Largest number of input maps handed to merge_atoms_maps.
MaxMaps == 3
\* Largest number of atoms in all the input maps together.
MaxAtoms == 3

(***************************************************************************)
(* Identifier strings.                                                     *)
(***************************************************************************)
\* Byte values of the characters used in keys (String's Ord is bytewise).
Ord == [c \in {".", "f", "g"} |->
          IF c = "." THEN 46 ELSE IF c = "f" THEN 102 ELSE 103]

\* The keys an input map may use: two identifiers, one of them also in the
\* legacy trailing-dot spelling.
KeyUniverse == { <<"f">>, <<"f", ".">>, <<"g">> }

\* String comparison a < b, as BTreeMap<String, _> orders its keys.
KeyLess(a, b) ==
    \E i \in 1..(Len(a) + 1) :
        /\ \A j \in 1..(i - 1) : j <= Len(b) /\ a[j] = b[j]
        /\ \/ i = Len(a) + 1 /\ Len(b) >= i
           \/ i <= Len(a) /\ i <= Len(b) /\ Ord[a[i]] < Ord[b[i]]

\* First key of a non-empty key set in BTreeMap iteration order.
FirstKey(S) == CHOOSE k \in S : \A j \in S : j = k \/ KeyLess(k, j)

\* Mutant of normalize_code_name: strips one trailing "." only.
StripOneTrailingDot(name) ==
    IF Len(name) > 0 /\ name[Len(name)] = "."
    THEN SubSeq(name, 1, Len(name) - 1)
    ELSE name

\* probe_verus::normalize_code_name, which lives in the library crate: it
\* drops the legacy trailing "." of an identifier and leaves a canonical
\* identifier as it is (test_merge_normalizes_trailing_dot: "helper()." and
\* "helper()" both end under "helper()").
RECURSIVE normalize_code_name(_)
normalize_code_name(name) ==
    IF Len(name) > 0 /\ name[Len(name)] = "."
    THEN normalize_code_name(SubSeq(name, 1, Len(name) - 1))
    ELSE name

(***************************************************************************)
(* Atoms and maps.                                                         *)
(***************************************************************************)
EmptyMap == << >>

\* BTreeMap::insert: adds the key or overwrites the value under it.
MapInsert(m, k, v) == [x \in DOMAIN m \cup {k} |-> IF x = k THEN v ELSE m[x]]

\* BTreeMap without one key (the part of an iterator still to be visited).
MapRemove(m, k) == [x \in DOMAIN m \ {k} |-> m[x]]

\* A stub is an atom with no source: empty code_path and zero-length span.
is_stub(atom) ==
    atom.code_path = "" /\ atom.lines_start = 0 /\ atom.lines_end = 0


\* The value payloads an atoms.json file may hold under a key (code_name is
\* not serialized): two stubs that differ in their display name, and two
\* real atoms from different files, one with a legacy dependency string.
StubPayload(name) ==
    [display_name |-> name, code_path |-> "", lines_start |-> 0,
     lines_end |-> 0, dependencies |-> {},
     dependencies_with_locations |-> << >>, code_module |-> "",
     mode |-> "Exec"]

RealPayload(name, path, dep) ==
    [display_name |-> name, code_path |-> path, lines_start |-> 10,
     lines_end |-> 20, dependencies |-> {dep},
     dependencies_with_locations |-> << [code_name |-> dep, location |-> 12] >>,
     code_module |-> "mod", mode |-> "Exec"]

Payloads ==
    { StubPayload("h"), StubPayload("T::h"),
      RealPayload("h", "a/src/lib.rs", <<"g", ".">>),
      RealPayload("h", "b/src/lib.rs", <<"g">>) }

\* The parsed contents of the atoms.json files with at most n entries.
FileContents(n) ==
    UNION { [K -> Payloads] :
              K \in { S \in SUBSET KeyUniverse : Cardinality(S) <= n } }

\* load_atoms_file on a readable, well-formed file: the parsed map with each
\* atom's code_name reconstructed from its dictionary key.
load_atoms_file(content) ==
    [key \in DOMAIN content |->
        [code_name |-> key,
         display_name |-> content[key].display_name,
         dependencies |-> content[key].dependencies,
         dependencies_with_locations |->
             content[key].dependencies_with_locations,
         code_module |-> content[key].code_module,
         code_path |-> content[key].code_path,
         lines_start |-> content[key].lines_start,
         lines_end |-> content[key].lines_end,
         mode |-> content[key].mode]]

\* Number of atoms held by a list of maps.
RECURSIVE TotalAtoms(_)
TotalAtoms(ms) ==
    IF Len(ms) = 0 THEN 0
    ELSE Cardinality(DOMAIN ms[1]) + TotalAtoms(Tail(ms))

(***************************************************************************)
(* normalize_atoms_map.                                                    *)
(***************************************************************************)
\* Mutant of NormalizedAtom: the call-site list keeps its dependency strings
\* as they were.
NormalizedAtomSkipsLocations(key, atom) ==
    [atom EXCEPT
       !.code_name = normalize_code_name(key),
       !.dependencies = { normalize_code_name(d) : d \in @ }]

\* Mutant of NormalizedAtom: code_name keeps the key as it was loaded.
NormalizedAtomKeepsName(key, atom) ==
    [atom EXCEPT
       !.dependencies = { normalize_code_name(d) : d \in @ },
       !.dependencies_with_locations =
           [i \in DOMAIN @ |->
              [@[i] EXCEPT !.code_name = normalize_code_name(@)]]]

\* The atom as the loop body of normalize_atoms_map rewrites it: code_name
\* becomes the normalized key and every dependency string is normalized.
NormalizedAtom(key, atom) ==
    [atom EXCEPT
       !.code_name = normalize_code_name(key),
       !.dependencies = { normalize_code_name(d) : d \in @ },
       !.dependencies_with_locations =
           [i \in DOMAIN @ |->
              [@[i] EXCEPT !.code_name = normalize_code_name(@)]]]

\* Mutant of ReplacesExisting: a colliding entry never displaces the one
\* already stored.
ReplacesExistingNever(existing, atom) == FALSE

\* Mutant of ReplacesExisting: a colliding entry always displaces the one
\* already stored.
ReplacesExistingAlways(existing, atom) == TRUE

\* The test normalize_atoms_map makes when the normalized key is already in
\* the map it builds: the new atom displaces the stored one only when that
\* one is a stub and the new atom is not.
ReplacesExisting(existing, atom) == is_stub(existing) /\ ~is_stub(atom)

\* Mutant of NormalizeEntry: a dependency string changed by normalization
\* is counted like a changed key.
NormalizeEntryCountsDeps(acc, key, atom) ==
    LET norm_key == normalize_code_name(key)
        natom    == NormalizedAtom(key, atom)
        changed  == acc.changed
                      + (IF norm_key # key THEN 1 ELSE 0)
                      + Cardinality({ d \in atom.dependencies :
                                        normalize_code_name(d) # d })
    IN  IF norm_key \in DOMAIN acc.normalized
        THEN IF ReplacesExisting(acc.normalized[norm_key], natom)
             THEN [normalized |-> MapInsert(acc.normalized, norm_key, natom),
                   changed |-> changed]
             ELSE [normalized |-> acc.normalized, changed |-> changed]
        ELSE [normalized |-> MapInsert(acc.normalized, norm_key, natom),
              changed |-> changed]

\* One iteration of the loop of normalize_atoms_map over (key, atom); acc is
\* the pair (normalized, changed) built so far.
NormalizeEntry(acc, key, atom) ==
    LET norm_key == normalize_code_name(key)
        changed  == IF norm_key # key THEN acc.changed + 1 ELSE acc.changed
        natom    == NormalizedAtom(key, atom)
    IN  IF norm_key \in DOMAIN acc.normalized
        THEN IF ReplacesExisting(acc.normalized[norm_key], natom)
             THEN [normalized |-> MapInsert(acc.normalized, norm_key, natom),
                   changed |-> changed]
             ELSE [normalized |-> acc.normalized, changed |-> changed]
        ELSE [normalized |-> MapInsert(acc.normalized, norm_key, natom),
              changed |-> changed]

\* The loop of normalize_atoms_map over the entries not yet visited, in
\* ascending key order.
RECURSIVE NormalizeLoop(_, _)
NormalizeLoop(atoms, acc) ==
    IF DOMAIN atoms = {} THEN acc
    ELSE LET key == FirstKey(DOMAIN atoms)
         IN  NormalizeLoop(MapRemove(atoms, key),
                           NormalizeEntry(acc, key, atoms[key]))

\* normalize_atoms_map: the normalized map and the count of changed keys.
normalize_atoms_map(atoms) ==
    NormalizeLoop(atoms, [normalized |-> EmptyMap, changed |-> 0])

(***************************************************************************)
(* merge_atoms_maps.                                                       *)
(***************************************************************************)
\* MergeStats as initialised at the head of merge_atoms_maps.
ZeroStats ==
    [total_atoms |-> 0, stubs_replaced |-> 0, stubs_remaining |-> 0,
     atoms_added |-> 0, keys_normalized |-> 0, conflicts |-> 0]

\* Mutant of ReplaceArm: the stub is patched with the incoming atom's
\* location instead of being replaced by the whole atom.
ReplaceArmPatchesStub(b, st, key, incoming_atom) ==
    [base |-> [b EXCEPT ![key].code_path = incoming_atom.code_path,
                        ![key].lines_start = incoming_atom.lines_start,
                        ![key].lines_end = incoming_atom.lines_end],
     stats |-> [st EXCEPT !.stubs_replaced = @ + 1],
     arm |-> "replace"]

\* Mutant of ReplaceArm: the stub of the base is kept.
ReplaceArmKeepsStub(b, st, key, incoming_atom) ==
    [base |-> b, stats |-> [st EXCEPT !.stubs_replaced = @ + 1],
     arm |-> "replace"]

\* Mutant of ReplaceArm: the replacement is counted as an added atom.
ReplaceArmCountsAdded(b, st, key, incoming_atom) ==
    [base |-> MapInsert(b, key, incoming_atom),
     stats |-> [st EXCEPT !.atoms_added = @ + 1],
     arm |-> "replace"]

\* Some(existing) if is_stub(existing) && !is_stub(&incoming_atom): the
\* incoming atom is inserted over the stub.
ReplaceArm(b, st, key, incoming_atom) ==
    [base |-> MapInsert(b, key, incoming_atom),
     stats |-> [st EXCEPT !.stubs_replaced = @ + 1],
     arm |-> "replace"]

\* Mutant of ConflictArm: the incoming real atom overwrites the base's.
ConflictArmLastWins(b, st, key, incoming_atom) ==
    [base |-> MapInsert(b, key, incoming_atom),
     stats |-> [st EXCEPT !.conflicts = @ + 1],
     arm |-> "conflict"]

\* Some(existing) if !is_stub(existing) && !is_stub(&incoming_atom): the
\* conflict is counted and warned about, the base is kept.
ConflictArm(b, st, key, incoming_atom) ==
    [base |-> b,
     stats |-> [st EXCEPT !.conflicts = @ + 1],
     arm |-> "conflict"]

\* Mutant of KeepArm: the incoming stub overwrites a stub of the base.
KeepArmOverwritesStub(b, st, key, incoming_atom) ==
    [base |-> IF is_stub(b[key]) THEN MapInsert(b, key, incoming_atom) ELSE b,
     stats |-> st, arm |-> "keep"]

\* Some(_): both are stubs or the incoming atom is a stub; nothing is done.
KeepArm(b, st, key, incoming_atom) ==
    [base |-> b, stats |-> st, arm |-> "keep"]

\* Mutant of InsertArm: the atom is counted as added but not inserted.
InsertArmDropsAtom(b, st, key, incoming_atom) ==
    [base |-> b, stats |-> [st EXCEPT !.atoms_added = @ + 1],
     arm |-> "insert"]

\* Mutant of InsertArm: the inserted atom is not counted.
InsertArmUncounted(b, st, key, incoming_atom) ==
    [base |-> MapInsert(b, key, incoming_atom), stats |-> st,
     arm |-> "insert"]

\* None: the incoming atom is inserted and counted.
InsertArm(b, st, key, incoming_atom) ==
    [base |-> MapInsert(b, key, incoming_atom),
     stats |-> [st EXCEPT !.atoms_added = @ + 1],
     arm |-> "insert"]

\* The match on base.get(&key) for one (key, incoming_atom) of the incoming
\* map: the base and the statistics after it, and the arm that was taken.
MergeEntry(b, st, key, incoming_atom) ==
    IF key \in DOMAIN b
    THEN IF is_stub(b[key]) /\ ~is_stub(incoming_atom)
         THEN ReplaceArm(b, st, key, incoming_atom)
         ELSE IF ~is_stub(b[key]) /\ ~is_stub(incoming_atom)
         THEN ConflictArm(b, st, key, incoming_atom)
         ELSE KeepArm(b, st, key, incoming_atom)
    ELSE InsertArm(b, st, key, incoming_atom)

\* The inner loop of merge_atoms_maps over one normalized incoming map, in
\* ascending key order; acc is the pair (base, stats).
RECURSIVE FoldIncoming(_, _)
FoldIncoming(acc, inc) ==
    IF DOMAIN inc = {} THEN acc
    ELSE LET key == FirstKey(DOMAIN inc)
             r   == MergeEntry(acc.base, acc.stats, key, inc[key])
         IN  FoldIncoming([base |-> r.base, stats |-> r.stats],
                          MapRemove(inc, key))

\* The outer loop of merge_atoms_maps over the maps after the first.
RECURSIVE FoldMaps(_, _, _)
FoldMaps(acc, ms, i) ==
    IF i > Len(ms) THEN acc
    ELSE LET n == normalize_atoms_map(ms[i])
         IN  FoldMaps(FoldIncoming(
                        [base |-> acc.base,
                         stats |-> [acc.stats EXCEPT
                                      !.keys_normalized = @ + n.changed]],
                        n.normalized),
                      ms, i + 1)

\* Mutant of FinalStats: stubs_remaining is derived from the counters
\* instead of being counted in the final map.
FinalStatsFromCounters(b, st) ==
    [st EXCEPT
       !.stubs_remaining = Cardinality(DOMAIN b) - st.atoms_added,
       !.total_atoms = Cardinality(DOMAIN b)]

\* The final statistics of merge_atoms_maps over the folded base.
FinalStats(b, st) ==
    [st EXCEPT
       !.stubs_remaining = Cardinality({ k \in DOMAIN b : is_stub(b[k]) }),
       !.total_atoms = Cardinality(DOMAIN b)]

\* merge_atoms_maps as a function of its argument: (merged map, stats).
merge_atoms_maps(ms) ==
    LET first == IF Len(ms) = 0 THEN EmptyMap ELSE ms[1]
        n     == normalize_atoms_map(first)
        r     == FoldMaps([base |-> n.normalized,
                           stats |-> [ZeroStats EXCEPT
                                        !.keys_normalized = n.changed]],
                          ms, 2)
    IN  [merged |-> r.base, stats |-> FinalStats(r.base, r.stats)]

(***************************************************************************)
(* The run of merge_atoms_maps, one loop iteration per step.               *)
(***************************************************************************)
\* The components that take no part in a run of merge_atoms_maps are idle.
NzIdle ==
    [pc |-> "idle", x |-> << >>, m |-> EmptyMap,
     once |-> << >>, once_map |-> EmptyMap,
     twice |-> << >>, twice_map |-> EmptyMap, changed |-> 0]

\* The output file before cmd_merge_atoms has touched it.
Untouched == [state |-> "untouched", content |-> EmptyMap]

CmdIdle ==
    [pc |-> "idle", inputs |-> << >>, next |-> 1, loads |-> 0,
     maps |-> << >>, merged |-> EmptyMap, merges |-> 0,
     output |-> Untouched, exit_code |-> 0]

\* Option<T>.
None == [some |-> FALSE, value |-> << >>]
Some(v) == [some |-> TRUE, value |-> v]

FmIdle ==
    [pc |-> "idle",
     func |-> [name |-> "", file |-> [some |-> FALSE, value |-> ""],
               fn_line |-> 0, lines_start |-> 0, lines_end |-> 0],
     atoms |-> EmptyMap, result |-> None]

PmIdle ==
    [pc |-> "idle", query |-> "", candidates |-> << >>, suffix |-> "",
     matches |-> FALSE, score |-> 0,
     best |-> [some |-> FALSE, value |-> ""],
     matcher_best |-> [some |-> FALSE, value |-> ""]]

MfIdle ==
    [pc |-> "idle", functions |-> << >>, atoms |-> EmptyMap, next |-> 1,
     output_map |-> EmptyMap, matched_count |-> 0, unmatched_count |-> 0]

\* ScipCache::get_or_generate before it is called, in an environment in
\* which nothing exists and every tool fails.
ScIdle ==
    [pc |-> "idle",
     env |-> [json_exists |-> FALSE, regenerate |-> FALSE,
              analyzer_found |-> FALSE, scip_found |-> FALSE,
              analyzer_status |-> "spawn_error", index_generated |-> FALSE,
              data_dir_ready |-> FALSE, rename_ok |-> FALSE,
              path_is_utf8 |-> FALSE, print_status |-> "spawn_error",
              write_ok |-> FALSE],
     ran |-> << >>, tools |-> << >>,
     result |-> [kind |-> "none", value |-> ""]]

\* No fold step has been taken yet.
NoStep == [arm |-> "none", key |-> << >>]

Init ==
    /\ maps = << >>
    /\ pc = "load"
    /\ maps_iter = 1
    /\ base = EmptyMap
    /\ incoming = EmptyMap
    /\ stats = ZeroStats
    /\ last = NoStep
    /\ nz = NzIdle
    /\ cmd = CmdIdle
    /\ fm = FmIdle
    /\ pm = PmIdle
    /\ mf = MfIdle
    /\ sc = ScIdle

\* The caller loads one more atoms.json file and pushes its map on the list
\* it will hand to merge_atoms_maps.
LoadAtoms ==
    /\ pc = "load"
    /\ Len(maps) < MaxMaps
    /\ \E content \in FileContents(MaxAtoms - TotalAtoms(maps)) :
           maps' = Append(maps, load_atoms_file(content))
    /\ UNCHANGED <<pc, maps_iter, base, incoming, stats, last>>
    /\ UNCHANGED notMergeVars

\* Mutant of NormalizeFirst: the first map is taken with unwrap(), which
\* panics on an empty list.
NormalizeFirstUnwraps ==
    /\ pc = "load"
    /\ IF Len(maps) = 0
       THEN /\ pc' = "panicked"
            /\ UNCHANGED <<base, stats, maps_iter>>
       ELSE LET n == normalize_atoms_map(maps[1])
            IN  /\ base' = n.normalized
                /\ stats' = [stats EXCEPT !.keys_normalized = @ + n.changed]
                /\ maps_iter' = 2
                /\ pc' = "next_map"
    /\ UNCHANGED <<maps, incoming, last>>
    /\ UNCHANGED notMergeVars

\* let first = maps_iter.next().unwrap_or_default(); normalize it as the base.
NormalizeFirst ==
    /\ pc = "load"
    /\ LET first == IF Len(maps) = 0 THEN EmptyMap ELSE maps[1]
           n     == normalize_atoms_map(first)
       IN  /\ base' = n.normalized
           /\ stats' = [stats EXCEPT !.keys_normalized = @ + n.changed]
    /\ maps_iter' = 2
    /\ pc' = "next_map"
    /\ UNCHANGED <<maps, incoming, last>>
    /\ UNCHANGED notMergeVars

\* for incoming in maps_iter: normalize the next map and count its keys.
NormalizeIncoming ==
    /\ pc = "next_map"
    /\ maps_iter <= Len(maps)
    /\ LET n == normalize_atoms_map(maps[maps_iter])
       IN  /\ incoming' = n.normalized
           /\ stats' = [stats EXCEPT !.keys_normalized = @ + n.changed]
    /\ maps_iter' = maps_iter + 1
    /\ pc' = "fold"
    /\ UNCHANGED <<maps, base, last>>
    /\ UNCHANGED notMergeVars

\* for (key, incoming_atom) in incoming: one iteration of the inner loop.
MergeStep ==
    /\ pc = "fold"
    /\ DOMAIN incoming # {}
    /\ LET key == FirstKey(DOMAIN incoming)
           r   == MergeEntry(base, stats, key, incoming[key])
       IN  /\ base' = r.base
           /\ stats' = r.stats
           /\ last' = [arm |-> r.arm, key |-> key]
           /\ incoming' = MapRemove(incoming, key)
    /\ UNCHANGED <<maps, pc, maps_iter>>
    /\ UNCHANGED notMergeVars

\* The inner loop is exhausted: back to the outer loop.
EndIncoming ==
    /\ pc = "fold"
    /\ DOMAIN incoming = {}
    /\ pc' = "next_map"
    /\ UNCHANGED <<maps, maps_iter, base, incoming, stats, last>>
    /\ UNCHANGED notMergeVars

\* The outer loop is exhausted: compute the final statistics and return.
Finish ==
    /\ pc = "next_map"
    /\ maps_iter > Len(maps)
    /\ stats' = FinalStats(base, stats)
    /\ pc' = "done"
    /\ UNCHANGED <<maps, maps_iter, base, incoming, last>>
    /\ UNCHANGED notMergeVars

Next ==
    \/ LoadAtoms
    \/ NormalizeFirst
    \/ NormalizeIncoming
    \/ MergeStep
    \/ EndIncoming
    \/ Finish

Spec == Init /\ [][Next]_vars

\* The steps of merge_atoms_maps itself.
Run == NormalizeFirst \/ NormalizeIncoming \/ MergeStep \/ EndIncoming \/ Finish

(***************************************************************************)
(* Properties of the fold.                                                 *)
(***************************************************************************)
\* The inner loop is about to visit an entry of the incoming map.
AtFoldStep == pc = "fold" /\ DOMAIN incoming # {}

\* The key and the atom that entry has.
StepKey == FirstKey(DOMAIN incoming)
StepAtom == incoming[StepKey]

\* C1: a fold step on a key the base holds as a stub, with a real incoming
\* atom, puts the whole incoming atom under the key, leaves every other
\* entry alone, and adds exactly 1 to stubs_replaced and nothing to any
\* other counter.
StubReplacedByIncoming ==
    [][(/\ AtFoldStep
        /\ StepKey \in DOMAIN base
        /\ is_stub(base[StepKey])
        /\ ~is_stub(StepAtom))
       => /\ DOMAIN base' = DOMAIN base
          /\ base'[StepKey] = StepAtom
          /\ \A k \in DOMAIN base \ {StepKey} : base'[k] = base[k]
          /\ stats'.stubs_replaced = stats.stubs_replaced + 1
          /\ stats'.atoms_added = stats.atoms_added
          /\ stats'.conflicts = stats.conflicts
          /\ stats' = [stats EXCEPT !.stubs_replaced = @ + 1]]_vars

\* C1 witness: a stub of the base has just been replaced by a real atom
\* whose fields differ from the stub's.
StubReplacedReached ==
    /\ last.arm = "replace"
    /\ base[last.key].code_path = "b/src/lib.rs"
    /\ stats.stubs_replaced = 1
    /\ \E k \in DOMAIN maps[1] :
          /\ normalize_code_name(k) = last.key
          /\ maps[1][k].display_name = "T::h"

\* Loop iterations merge_atoms_maps still has to run before it returns: the
\* rest of the inner loop, then at most a normalization, one iteration per
\* entry and a loop exit for every map not yet visited, then the return.
RECURSIVE MapsLeft(_)
MapsLeft(i) ==
    IF i > Len(maps) THEN 0
    ELSE 2 + Cardinality(DOMAIN maps[i]) + MapsLeft(i + 1)

WorkLeft ==
    IF pc = "done" THEN 0
    ELSE 1 + MapsLeft(maps_iter)
           + (IF pc = "fold" THEN 1 + Cardinality(DOMAIN incoming) ELSE 0)

\* C2: a fold step on a key the base holds as a real atom, with a real
\* incoming atom, keeps the base as it is, adds exactly 1 to conflicts and
\* nothing to any other counter, and is no error outcome: the loop goes on,
\* and from then on merge_atoms_maps always has a next step to take until it
\* has returned, each step leaving strictly less work.
ConflictKeepsBase ==
    /\ [][(/\ AtFoldStep
           /\ StepKey \in DOMAIN base
           /\ ~is_stub(base[StepKey])
           /\ ~is_stub(StepAtom))
          => /\ base' = base
             /\ stats' = [stats EXCEPT !.conflicts = @ + 1]
             /\ pc' = "fold"]_vars
    /\ [][stats.conflicts > 0 => WorkLeft' < WorkLeft /\ WorkLeft' >= 0]_vars
    /\ [](stats.conflicts > 0 /\ pc # "done" => ENABLED Run)

\* C2 witness: the run met a conflict and returned, the base entry being
\* the first map's.
ConflictReached ==
    /\ pc = "done"
    /\ last.arm = "conflict"
    /\ stats.conflicts = 1
    /\ base[last.key].code_path = "a/src/lib.rs"

\* C3: a fold step with an incoming stub on a key the base already holds
\* changes neither the base (stub or real) nor any counter.
IncomingStubChangesNothing ==
    [][(/\ AtFoldStep
        /\ StepKey \in DOMAIN base
        /\ is_stub(StepAtom))
       => /\ base' = base
          /\ stats' = stats]_vars

\* C3 witness: an incoming stub has met a stub of the base that differs
\* from it in its display name, and the base still holds its own.
IncomingStubReached ==
    /\ last.arm = "keep"
    /\ is_stub(base[last.key])
    /\ base[last.key].display_name = "h"
    /\ \E k \in DOMAIN maps[maps_iter - 1] :
          /\ normalize_code_name(k) = last.key
          /\ maps[maps_iter - 1][k].display_name = "T::h"

\* C4: a fold step on a key the base does not hold inserts the incoming
\* atom (stub or real) under it, leaves every other entry alone, and adds
\* exactly 1 to atoms_added and nothing to any other counter.
AbsentKeyInserted ==
    [][(/\ AtFoldStep
        /\ StepKey \notin DOMAIN base)
       => /\ DOMAIN base' = DOMAIN base \cup {StepKey}
          /\ base'[StepKey] = StepAtom
          /\ \A k \in DOMAIN base : base'[k] = base[k]
          /\ stats' = [stats EXCEPT !.atoms_added = @ + 1]]_vars

\* C4 witness: a stub has been inserted under a key the non-empty base did
\* not hold.
AbsentKeyReached ==
    /\ last.arm = "insert"
    /\ is_stub(base[last.key])
    /\ Cardinality(DOMAIN base) = 2
    /\ stats.atoms_added = 1

(***************************************************************************)
(* Properties of the merged result.                                        *)
(***************************************************************************)
\* The first input map (empty when the list is).
FirstMap == IF Len(maps) = 0 THEN EmptyMap ELSE maps[1]

\* Input map i supplies a real entry for the identifier name, under its
\* canonical or a legacy spelling.
RealSuppliedBy(ms, i, name) ==
    \E k \in DOMAIN ms[i] :
        normalize_code_name(k) = name /\ ~is_stub(ms[i][k])

\* C5: in the returned map an atom is a stub iff no input map, the base
\* included, supplied a real entry for its code_name (input keys being read
\* through the normalizer, as the merge reads them).
StubStability ==
    pc = "done" =>
        \A k \in DOMAIN base :
            is_stub(base[k]) <=>
                ~\E i \in 1..Len(maps) : RealSuppliedBy(maps, i, base[k].code_name)

\* C5 witness: the result holds a stub no input resolved and a real atom
\* that a later map supplied for a stub.
StubStabilityReached ==
    /\ pc = "done"
    /\ stats.stubs_replaced = 1
    /\ \E k \in DOMAIN base : is_stub(base[k])
    /\ \E k \in DOMAIN base : ~is_stub(base[k]) /\ ~RealSuppliedBy(maps, 1, k)

\* Every identifier is defined as real by at most one map of the list.
AtMostOneRealDefiner(ms) ==
    \A n \in { normalize_code_name(k) : k \in KeyUniverse } :
        Cardinality({ i \in 1..Len(ms) : RealSuppliedBy(ms, i, n) }) <= 1

\* The input list with the maps at positions i and j exchanged.
Swapped(i, j) ==
    [h \in 1..Len(maps) |->
        IF h = i THEN maps[j] ELSE IF h = j THEN maps[i] ELSE maps[h]]

\* C6 as claimed: when every key is real in at most one input map, the
\* merged map is identical whatever the order of the input list.  Every
\* reordering is a sequence of exchanges of two maps and the premise does
\* not depend on the order, so the claim is that no exchange changes the
\* merged map.
OrderIndependentIdentical ==
    (pc = "done" /\ AtMostOneRealDefiner(maps)) =>
        \A i, j \in 1..Len(maps) :
            i < j => merge_atoms_maps(Swapped(i, j)).merged = base

\* C6 as amended: when every key is real in at most one input map, every
\* reordering of the input list yields a merged map with the same keys, a
\* stub at the same keys, and the identical atom at every key that is not a
\* stub.  (A key only stubs define keeps the stub of the first map that has
\* it, so its other fields follow the order.)  Stated, as above, for the
\* exchanges of two maps, which generate every reordering.
OrderIndependentOnRealAtoms ==
    (pc = "done" /\ AtMostOneRealDefiner(maps)) =>
        \A i, j \in 1..Len(maps) :
            i < j =>
                LET m == merge_atoms_maps(Swapped(i, j)).merged
                IN  /\ DOMAIN m = DOMAIN base
                    /\ \A k \in DOMAIN base :
                          /\ is_stub(m[k]) <=> is_stub(base[k])
                          /\ ~is_stub(base[k]) => m[k] = base[k]

\* C6 witness: three maps with no doubly-real key, merged with one stub
\* replaced, of which another order meets the real atom first.
OrderIndependentReached ==
    /\ pc = "done"
    /\ Len(maps) = 3
    /\ AtMostOneRealDefiner(maps)
    /\ stats.stubs_replaced = 1
    /\ \E i, j \in 1..Len(maps) :
          merge_atoms_maps(Swapped(i, j)).stats.stubs_replaced = 0

\* Input map i after normalization.
NormalizedMap(i) == normalize_atoms_map(maps[i]).normalized

\* C7: when two input maps define the same key with different real values,
\* the first of them being the first map to define it as real, the merged
\* map holds the value of the earlier map, and exchanging the two maps in
\* the input list makes the value of the other one survive.
FirstSourceWins ==
    pc = "done" =>
        \A i, j \in 1..Len(maps) :
            \A n \in DOMAIN base :
                (/\ i < j
                 /\ RealSuppliedBy(maps, i, n)
                 /\ RealSuppliedBy(maps, j, n)
                 /\ \A h \in 1..(i - 1) : ~RealSuppliedBy(maps, h, n)
                 /\ NormalizedMap(i)[n] # NormalizedMap(j)[n])
                => /\ base[n] = NormalizedMap(i)[n]
                   /\ merge_atoms_maps(Swapped(i, j)).merged[n]
                          = NormalizedMap(j)[n]

\* C7 witness: two maps defined the same key as real with different values
\* and the merge has returned.
FirstSourceWinsReached ==
    /\ pc = "done"
    /\ stats.conflicts = 1
    /\ \E n \in DOMAIN base :
          /\ RealSuppliedBy(maps, 1, n)
          /\ RealSuppliedBy(maps, 2, n)
          /\ NormalizedMap(1)[n] # NormalizedMap(2)[n]
          /\ base[n] # NormalizedMap(2)[n]

\* C8 as claimed: the merged map has len(m0) + atoms_added entries, m0 being
\* the first input map, and is never smaller than m0.
GrowthFromFirstInput ==
    pc = "done" =>
        /\ Cardinality(DOMAIN base)
              = Cardinality(DOMAIN FirstMap) + stats.atoms_added
        /\ Cardinality(DOMAIN base) >= Cardinality(DOMAIN FirstMap)

\* Number of distinct keys the first input map has after normalization.
NormalizedFirstLen ==
    Cardinality({ normalize_code_name(k) : k \in DOMAIN FirstMap })

\* C8 as amended: from the normalization of the first map on, after every
\* fold step and in the result, the base has as many entries as the first
\* input map has distinct normalized keys, plus atoms_added; it is never
\* smaller than the normalized first map.
GrowthFromNormalizedBase ==
    pc # "load" =>
        /\ Cardinality(DOMAIN base) = NormalizedFirstLen + stats.atoms_added
        /\ Cardinality(DOMAIN base) >= NormalizedFirstLen

\* C8 witness: the first map lost an entry to a key collision, an atom was
\* added by a later map, and the merge has returned.
GrowthReached ==
    /\ pc = "done"
    /\ Cardinality(DOMAIN FirstMap) = 2
    /\ NormalizedFirstLen = 1
    /\ stats.atoms_added = 1

\* C9: in the result, stubs_remaining plus the number of real atoms of the
\* merged map is total_atoms, which is the number of its entries.
Conservation ==
    pc = "done" =>
        /\ stats.stubs_remaining
             + Cardinality({ k \in DOMAIN base : ~is_stub(base[k]) })
           = stats.total_atoms
        /\ stats.total_atoms = Cardinality(DOMAIN base)

\* C9 witness: a result with a remaining stub, a replaced stub and an added
\* atom.
ConservationReached ==
    /\ pc = "done"
    /\ stats.stubs_remaining = 1
    /\ stats.stubs_replaced = 1
    /\ stats.total_atoms = 2

\* In the map result, normalized from src, every key that a real and a stub
\* entry of src collide on holds the real entry, as normalized.
RealKept(src, result) ==
    \A k1, k2 \in DOMAIN src :
        (/\ k1 # k2
         /\ normalize_code_name(k1) = normalize_code_name(k2)
         /\ ~is_stub(src[k1])
         /\ is_stub(src[k2])
         /\ normalize_code_name(k1) \in DOMAIN result)
        => result[normalize_code_name(k1)] = NormalizedAtom(k1, src[k1])

\* C10: when normalization makes a real and a stub entry of one input map
\* collide, the normalized map holds the real one, whether its key comes
\* first or second in the map's iteration order; checked on the base right
\* after the first map was normalized and on each incoming map while it is
\* folded.
CollidingRealWins ==
    /\ (pc = "next_map" /\ maps_iter = 2) => RealKept(FirstMap, base)
    /\ pc = "fold" => RealKept(maps[maps_iter - 1], incoming)

\* C10 witness: the first map held a stub under "f" and a real atom under
\* the legacy key "f.", which is iterated second, and has been normalized.
CollidingRealWinsReached ==
    /\ pc = "next_map" /\ maps_iter = 2
    /\ DOMAIN FirstMap = { <<"f">>, <<"f", ".">> }
    /\ is_stub(FirstMap[<<"f">>])
    /\ ~is_stub(FirstMap[<<"f", ".">>])
    /\ DOMAIN base = { <<"f">> }

\* In the map result, normalized from src, every key that two real entries
\* of src collide on holds the one whose key is first (first = TRUE) or
\* last (first = FALSE) in the iteration order of src, as normalized.
RealOfTwoKept(src, result, first) ==
    \A k1, k2 \in DOMAIN src :
        (/\ KeyLess(k1, k2)
         /\ normalize_code_name(k1) = normalize_code_name(k2)
         /\ ~is_stub(src[k1])
         /\ ~is_stub(src[k2])
         /\ normalize_code_name(k1) \in DOMAIN result)
        => result[normalize_code_name(k1)]
             = IF first THEN NormalizedAtom(k1, src[k1])
                        ELSE NormalizedAtom(k2, src[k2])

\* C11 as claimed: when normalization makes two real entries of one input
\* map collide, the normalized map holds the one that comes later in the
\* map's iteration order.
CollidingLaterRealWins ==
    /\ (pc = "next_map" /\ maps_iter = 2) => RealOfTwoKept(FirstMap, base, FALSE)
    /\ pc = "fold" => RealOfTwoKept(maps[maps_iter - 1], incoming, FALSE)

\* C11 as amended: when normalization makes two real entries of one input
\* map collide, the normalized map holds the one that comes earlier in the
\* map's iteration order; checked on the base right after the first map
\* was normalized and on each incoming map while it is folded.
CollidingEarlierRealWins ==
    /\ (pc = "next_map" /\ maps_iter = 2) => RealOfTwoKept(FirstMap, base, TRUE)
    /\ pc = "fold" => RealOfTwoKept(maps[maps_iter - 1], incoming, TRUE)

\* C11 witness: the first map held different real atoms under "f" and under
\* the legacy key "f.", and has been normalized to the single key "f".
CollidingRealsReached ==
    /\ pc = "next_map" /\ maps_iter = 2
    /\ DOMAIN FirstMap = { <<"f">>, <<"f", ".">> }
    /\ FirstMap[<<"f">>].code_path = "b/src/lib.rs"
    /\ FirstMap[<<"f", ".">>].code_path = "a/src/lib.rs"
    /\ DOMAIN base = { <<"f">> }

\* An identifier in the legacy spelling.
HasTrailingDot(name) == Len(name) > 0 /\ name[Len(name)] = "."

\* The identifier is in canonical form.
IsCanonical(name) == normalize_code_name(name) = name /\ ~HasTrailingDot(name)

\* C12: in the returned map, for any input list, every key and every
\* dependency string (in dependencies and in dependencies_with_locations)
\* is its own normalization and has no trailing dot; the canonical form of
\* every input key is a key of the result, and every atom of the result is
\* an input atom with its code_name and dependency strings normalized.
OutputCanonical ==
    pc = "done" =>
        /\ \A k \in DOMAIN base :
              /\ IsCanonical(k)
              /\ \A d \in base[k].dependencies : IsCanonical(d)
              /\ \A i \in DOMAIN base[k].dependencies_with_locations :
                    IsCanonical(base[k].dependencies_with_locations[i].code_name)
              /\ \E i \in 1..Len(maps) : \E k2 \in DOMAIN maps[i] :
                    base[k] = NormalizedAtom(k2, maps[i][k2])
        /\ \A i \in 1..Len(maps) : \A k \in DOMAIN maps[i] :
              normalize_code_name(k) \in DOMAIN base

\* C12 witness: a single map with a real atom under the legacy key "f."
\* that depends on "g." has been merged.
OutputCanonicalReached ==
    /\ pc = "done"
    /\ Len(maps) = 1
    /\ DOMAIN maps[1] = { <<"f", ".">> }
    /\ maps[1][<<"f", ".">>].dependencies = { <<"g", ".">> }
    /\ base[<<"f">>].dependencies = { <<"g">> }

\* Number of keys of the list of maps that normalization changes.
RECURSIVE ChangedKeys(_)
ChangedKeys(ms) ==
    IF Len(ms) = 0 THEN 0
    ELSE Cardinality({ k \in DOMAIN ms[1] : normalize_code_name(k) # k })
           + ChangedKeys(Tail(ms))

\* C14: keys_normalized of the result is the number of keys, over all the
\* input maps with the base, that differ from their normalized form;
\* changed dependency strings are not counted.
KeysNormalizedCount ==
    pc = "done" => stats.keys_normalized = ChangedKeys(maps)

\* C14 witness: one legacy key in the second map, a legacy dependency
\* string in the first, and a count of 1.
KeysNormalizedReached ==
    /\ pc = "done"
    /\ Len(maps) = 2
    /\ <<"f", ".">> \in DOMAIN maps[2]
    /\ \E k \in DOMAIN maps[1] :
          k = normalize_code_name(k) /\ <<"g", ".">> \in maps[1][k].dependencies
    /\ stats.keys_normalized = 1

\* C15: on an empty list merge_atoms_maps does not fail: it always has a
\* next step until it has returned, with an empty map and every statistic
\* at 0.
EmptyInputEmptyResult ==
    Len(maps) = 0 =>
        /\ pc \in {"load", "next_map", "done"}
        /\ pc # "done" => ENABLED Run
        /\ base = EmptyMap
        /\ stats = ZeroStats

\* C15 witness: merge_atoms_maps has returned from an empty list.
EmptyInputReached == pc = "done" /\ Len(maps) = 0

\* C18: every atom of a loaded map has the key it is stored under as its
\* code_name, and so has every atom of the normalized incoming map and of
\* the base, during the fold and in the result.
CodeNameIsKey ==
    /\ \A i \in 1..Len(maps) : \A k \in DOMAIN maps[i] :
          maps[i][k].code_name = k
    /\ \A k \in DOMAIN incoming : incoming[k].code_name = k
    /\ \A k \in DOMAIN base : base[k].code_name = k

\* C18 witness: a result holding a stub of the base replaced by an atom
\* loaded under a legacy key, and an added atom.
CodeNameIsKeyReached ==
    /\ pc = "done"
    /\ stats.stubs_replaced = 1
    /\ stats.atoms_added = 1
    /\ \E i \in 2..Len(maps) : <<"f", ".">> \in DOMAIN maps[i]
                                /\ ~is_stub(maps[i][<<"f", ".">>])

\* The operator and the step-wise run compute the same result.
RunMatchesFunction ==
    pc = "done" =>
        /\ base = merge_atoms_maps(maps).merged
        /\ stats = merge_atoms_maps(maps).stats

(***************************************************************************)
(* The normalizer applied once and then again: to an identifier string,    *)
(* and to a map that merge_atoms_maps has already produced.                *)
(***************************************************************************)

\* Longest identifier string drawn, and most atoms in the map drawn.
MaxNameLen == 3
MaxNzAtoms == 1

\* The characters identifier strings are drawn from.
NameChars == {"f", "g", "."}

\* Every identifier string of at most MaxNameLen characters.
NameStrings == UNION {[1..n -> NameChars] : n \in 0..MaxNameLen}

\* The merge variables stay as they are before any map is loaded.
MergeIdle ==
    /\ maps = << >>
    /\ pc = "idle"
    /\ maps_iter = 1
    /\ base = EmptyMap
    /\ incoming = EmptyMap
    /\ stats = ZeroStats
    /\ last = NoStep

NzInit ==
    /\ MergeIdle
    /\ cmd = CmdIdle
    /\ fm = FmIdle
    /\ pm = PmIdle
    /\ mf = MfIdle
    /\ sc = ScIdle
    /\ \E x \in NameStrings, content \in FileContents(MaxNzAtoms) :
           nz = [NzIdle EXCEPT !.pc = "input", !.x = x,
                               !.m = load_atoms_file(content)]

\* First pass: normalize_code_name on the string; the map goes through
\* merge_atoms_maps, which normalizes every key and dependency.
NormalizeOnce ==
    /\ nz.pc = "input"
    /\ nz' = [nz EXCEPT !.pc = "once",
                        !.once = normalize_code_name(nz.x),
                        !.once_map = merge_atoms_maps(<<nz.m>>).merged]
    /\ UNCHANGED <<mergeVars, cmd, fm, pm, mf, sc>>

\* Second pass over the results of the first.
NormalizeTwice ==
    /\ nz.pc = "once"
    /\ LET n == normalize_atoms_map(nz.once_map)
       IN  nz' = [nz EXCEPT !.pc = "twice",
                            !.twice = normalize_code_name(nz.once),
                            !.twice_map = n.normalized,
                            !.changed = n.changed]
    /\ UNCHANGED <<mergeVars, cmd, fm, pm, mf, sc>>

NzNext == NormalizeOnce \/ NormalizeTwice

NzSpec == NzInit /\ [][NzNext]_vars

\* C13: the normalizer is idempotent. Normalizing an already normalized
\* identifier string gives the same string, and a second normalization pass
\* over a map that merge_atoms_maps produced changes no key (none is counted
\* as changed, and the keys are the same) and no dependency string (every
\* atom, dependencies included, is the same).
NormalizerIdempotent ==
    nz.pc = "twice" =>
        /\ nz.twice = nz.once
        /\ nz.changed = 0
        /\ nz.twice_map = nz.once_map

\* A string with two trailing dots was normalized, which changed it, and then
\* normalized again, together with a map whose legacy key was rewritten.
NormalizerIdempotentReached ==
    /\ nz.pc = "twice"
    /\ nz.x = <<"f", ".", ".">>
    /\ nz.once # nz.x
    /\ DOMAIN nz.m = {<<"f", ".">>}
    /\ DOMAIN nz.once_map = {<<"f">>}

(***************************************************************************)
(* cmd_merge_atoms: the merge-atoms command, from its argument check to    *)
(* its exit.                                                               *)
(***************************************************************************)

\* Most input paths given on the command line.
MaxInputs == 3

\* What an input path may hold: a well-formed atoms.json file, a file that
\* cannot be read (read_to_string fails) or one that is not an atoms map
\* (serde_json::from_str fails).
CmdContents ==
    {EmptyMap} \cup
    { [k \in {key} |-> p] :
          key \in {<<"f">>, <<"f", ".">>},
          p \in { StubPayload("h"),
                  RealPayload("h", "a/src/lib.rs", <<"g", ".">>),
                  RealPayload("h", "b/src/lib.rs", <<"g">>) } }

CmdFiles ==
    { [kind |-> "ok", content |-> c] : c \in CmdContents } \cup
    { [kind |-> "unreadable", content |-> EmptyMap],
      [kind |-> "malformed", content |-> EmptyMap] }

\* load_atoms_file returns Err for a file it cannot read or cannot parse.
LoadFails(file) == file.kind # "ok"

\* serde_json::to_string_pretty(&merged): the map as the file holds it,
\* without the code_name field, which is not serialized.
to_string_pretty(m) ==
    [key \in DOMAIN m |->
        [display_name |-> m[key].display_name,
         dependencies |-> m[key].dependencies,
         dependencies_with_locations |-> m[key].dependencies_with_locations,
         code_module |-> m[key].code_module,
         code_path |-> m[key].code_path,
         lines_start |-> m[key].lines_start,
         lines_end |-> m[key].lines_end,
         mode |-> m[key].mode]]

CmdInit ==
    /\ MergeIdle
    /\ nz = NzIdle
    /\ fm = FmIdle
    /\ pm = PmIdle
    /\ mf = MfIdle
    /\ sc = ScIdle
    /\ \E n \in 0..MaxInputs : \E inputs \in [1..n -> CmdFiles] :
           cmd = [CmdIdle EXCEPT !.pc = "start", !.inputs = inputs]

\* Mutant of CmdCheckInputs: the check lets a single input through.
CmdCheckInputsAllowsOne ==
    /\ cmd.pc = "start"
    /\ IF Len(cmd.inputs) < 1
       THEN cmd' = [cmd EXCEPT !.pc = "exited", !.exit_code = 1]
       ELSE cmd' = [cmd EXCEPT !.pc = "load"]
    /\ UNCHANGED <<mergeVars, nz, fm, pm, mf, sc>>

\* if inputs.len() < 2 { eprintln!(..); std::process::exit(1); }
CmdCheckInputs ==
    /\ cmd.pc = "start"
    /\ IF Len(cmd.inputs) < 2
       THEN cmd' = [cmd EXCEPT !.pc = "exited", !.exit_code = 1]
       ELSE cmd' = [cmd EXCEPT !.pc = "load"]
    /\ UNCHANGED <<mergeVars, nz, fm, pm, mf, sc>>

\* for path in &inputs: load_atoms_file(path) is Ok(atoms); maps.push(atoms).
CmdLoadOk ==
    /\ cmd.pc = "load"
    /\ cmd.next <= Len(cmd.inputs)
    /\ ~LoadFails(cmd.inputs[cmd.next])
    /\ cmd' = [cmd EXCEPT
                 !.loads = @ + 1,
                 !.maps = Append(@, load_atoms_file(cmd.inputs[cmd.next].content)),
                 !.next = @ + 1]
    /\ UNCHANGED <<mergeVars, nz, fm, pm, mf, sc>>

\* Mutant of CmdLoadErr: a file that fails to load is skipped.
CmdLoadErrSkips ==
    /\ cmd.pc = "load"
    /\ cmd.next <= Len(cmd.inputs)
    /\ LoadFails(cmd.inputs[cmd.next])
    /\ cmd' = [cmd EXCEPT !.loads = @ + 1, !.next = @ + 1]
    /\ UNCHANGED <<mergeVars, nz, fm, pm, mf, sc>>

\* load_atoms_file(path) is Err(e): eprintln!(..); std::process::exit(1).
CmdLoadErr ==
    /\ cmd.pc = "load"
    /\ cmd.next <= Len(cmd.inputs)
    /\ LoadFails(cmd.inputs[cmd.next])
    /\ cmd' = [cmd EXCEPT !.loads = @ + 1, !.pc = "exited", !.exit_code = 1]
    /\ UNCHANGED <<mergeVars, nz, fm, pm, mf, sc>>

\* The loop is over: let (merged, stats) = merge_atoms_maps(maps).
CmdMerge ==
    /\ cmd.pc = "load"
    /\ cmd.next > Len(cmd.inputs)
    /\ cmd' = [cmd EXCEPT !.merged = merge_atoms_maps(cmd.maps).merged,
                          !.merges = @ + 1,
                          !.pc = "write"]
    /\ UNCHANGED <<mergeVars, nz, fm, pm, mf, sc>>

\* std::fs::write(&output, &json) succeeds; the summary is printed and the
\* command returns.
CmdWrite ==
    /\ cmd.pc = "write"
    /\ cmd' = [cmd EXCEPT
                 !.output = [state |-> "written",
                             content |-> to_string_pretty(cmd.merged)],
                 !.pc = "exited", !.exit_code = 0]
    /\ UNCHANGED <<mergeVars, nz, fm, pm, mf, sc>>

\* std::fs::write(&output, &json) fails and .expect(..) panics (exit code
\* 101). std::fs::write creates or truncates the file and then writes the
\* bytes: it fails either before the file is touched, or after it has been
\* truncated and some of the bytes may have been written.
CmdWriteFails ==
    /\ cmd.pc = "write"
    /\ \E out \in {Untouched, [state |-> "truncated", content |-> EmptyMap]} :
           cmd' = [cmd EXCEPT !.output = out,
                              !.pc = "exited", !.exit_code = 101]
    /\ UNCHANGED <<mergeVars, nz, fm, pm, mf, sc>>

CmdNext ==
    \/ CmdCheckInputs
    \/ CmdLoadOk
    \/ CmdLoadErr
    \/ CmdMerge
    \/ CmdWrite
    \/ CmdWriteFails

CmdSpec == CmdInit /\ [][CmdNext]_vars

\* Every input file has been loaded and parsed, in order.
AllInputsLoaded ==
    /\ Len(cmd.maps) = Len(cmd.inputs)
    /\ \A i \in 1..Len(cmd.inputs) :
           /\ ~LoadFails(cmd.inputs[i])
           /\ cmd.maps[i] = load_atoms_file(cmd.inputs[i].content)

SomeInputFails == \E i \in 1..Len(cmd.inputs) : LoadFails(cmd.inputs[i])

\* What a complete output file holds: the merge of every input.
CompleteOutput ==
    to_string_pretty(
        merge_atoms_maps([i \in 1..Len(cmd.inputs) |->
                              load_atoms_file(cmd.inputs[i].content)]).merged)

\* The write comes only after every load, and a run with a failing input
\* goes on until it exits with status 1, the output file untouched.
WriteOnlyAfterLoads ==
    /\ (cmd.pc = "write" \/ cmd.output # Untouched) => AllInputsLoaded
    /\ SomeInputFails =>
           /\ cmd.output = Untouched
           /\ cmd.pc # "exited" => ENABLED CmdNext
           /\ cmd.pc = "exited" => cmd.exit_code = 1
    /\ cmd.output.state = "written" =>
           /\ cmd.output.content = CompleteOutput
           /\ cmd.pc = "exited" /\ cmd.exit_code = 0

TooFewInputsFail ==
    Len(cmd.inputs) < 2 =>
        /\ cmd.pc = "start" => ENABLED CmdCheckInputs
        /\ cmd.pc \notin {"idle", "start"} =>
               cmd.pc = "exited" /\ cmd.exit_code = 1
        /\ cmd.loads = 0 /\ cmd.maps = << >>
        /\ cmd.merges = 0
        /\ cmd.output = Untouched

\* The command was given one well-formed input and exited with status 1.
TooFewInputsReached ==
    /\ cmd.pc = "exited"
    /\ cmd.exit_code = 1
    /\ Len(cmd.inputs) = 1
    /\ cmd.inputs[1].kind = "ok"
    /\ DOMAIN cmd.inputs[1].content # {}

(***************************************************************************)
(* Paths (path_utils.rs), on strings.                                      *)
(***************************************************************************)

\* str::ends_with.
ends_with(s, suffix) ==
    /\ Len(suffix) <= Len(s)
    /\ SubSeq(s, Len(s) - Len(suffix) + 1, Len(s)) = suffix

\* str::find: the first position (from 1) at which pat occurs in s, 0 if it
\* occurs nowhere.
find(s, pat) ==
    LET At(i) == /\ i + Len(pat) - 1 <= Len(s)
                 /\ SubSeq(s, i, i + Len(pat) - 1) = pat
        Hits  == { i \in 1..Len(s) : At(i) }
    IN  IF Hits = {} THEN 0
        ELSE CHOOSE i \in Hits : \A j \in Hits : i <= j

\* Mutant of extract_src_suffix: the slice starts at the "/" that was found.
ExtractFromSlash(path) ==
    LET pos == find(path, "/src/")
    IN  IF pos > 0 THEN SubSeq(path, pos, Len(path)) ELSE path

\* if let Some(pos) = path.find("/src/") { &path[pos + 1..] } else { path }
extract_src_suffix(path) ==
    LET pos == find(path, "/src/")
    IN  IF pos > 0 THEN SubSeq(path, pos + 1, Len(path)) ELSE path

\* Mutant of paths_match_by_suffix: the shorter path must start at a
\* component boundary of the longer one.
PathsMatchAtBoundary(path1, path2) ==
    LET AtBoundary(long, short) ==
            /\ ends_with(long, short)
            /\ \/ Len(long) = Len(short)
               \/ SubSeq(long, Len(long) - Len(short), Len(long) - Len(short))
                      = "/"
               \/ Len(short) > 0 /\ SubSeq(short, 1, 1) = "/"
    IN  AtBoundary(path1, path2) \/ AtBoundary(path2, path1)

\* path1.ends_with(path2) || path2.ends_with(path1)
paths_match_by_suffix(path1, path2) ==
    ends_with(path1, path2) \/ ends_with(path2, path1)

(***************************************************************************)
(* find_matching_atom (specify.rs).                                        *)
(***************************************************************************)

\* probe_verus::constants::LINE_TOLERANCE, which lives in the library crate:
\* a small fixed number of lines.
LINE_TOLERANCE == 5

\* usize::MAX, the initial best_line_diff: larger than every line distance
\* (the largest integer of the model stands for 2^64 - 1).
usize_MAX == 2147483647

\* Most atoms in the map handed to find_matching_atom.
MaxMatchAtoms == 2

\* Option::unwrap_or on an Option<&str>.
unwrap_or(opt, default) == IF opt.some THEN opt.value ELSE default

\* isize::unsigned_abs of a difference of two line numbers.
unsigned_abs(n) == IF n < 0 THEN 0 - n ELSE n

\* The parsed functions looked up: one name, in a file given by a relative
\* path, by an absolute path or not at all, with its fn keyword two lines
\* below the start of its span, far down the file or at its top.
Funcs ==
    { [name |-> "add", file |-> file, fn_line |-> l[1],
       lines_start |-> l[2], lines_end |-> l[3]] :
          file \in { [some |-> TRUE, value |-> "src/e.rs"],
                     [some |-> TRUE, value |-> "/p/src/e.rs"],
                     [some |-> FALSE, value |-> ""] },
          l \in { <<100, 98, 110>>, <<3, 1, 8>> } }

\* AtomEntry { display_name, code_path, code_text: CodeText { lines_start } }
AtomEntry(display_name, code_path, lines_start) ==
    [display_name |-> display_name, code_path |-> code_path,
     lines_start |-> lines_start]

\* The atoms.json entries looked through: the name equal, qualified or merely
\* ending alike; the path equal, equal from src/ on or of another file; the
\* line at the fn keyword, near it on either side, beyond the tolerance
\* inside the span, outside both; and a stub.
AtomEntries ==
    { AtomEntry("add", "src/e.rs", 100),
      AtomEntry("T::add", "src/e.rs", 97),
      AtomEntry("T::add", "src/e.rs", 103),
      AtomEntry("add", "/q/src/e.rs", 103),
      AtomEntry("U::add", "src/e.rs", 106),
      AtomEntry("add", "src/e.rs", 90),
      AtomEntry("padd", "src/e.rs", 100),
      AtomEntry("add", "src/r.rs", 100),
      AtomEntry("add", "src/e.rs", 4),
      AtomEntry("add", "", 0) }

\* The atom maps of at most n entries, keyed by code_name.
AtomMaps(n) ==
    UNION { [K -> AtomEntries] :
              K \in { S \in SUBSET KeyUniverse : Cardinality(S) <= n } }

func_path(func) == unwrap_or(func.file, "")

path_matches(func, atom) ==
    \/ paths_match_by_suffix(func_path(func), atom.code_path)
    \/ extract_src_suffix(func_path(func)) = extract_src_suffix(atom.code_path)

name_matches(func, atom) ==
    \/ func.name = atom.display_name
    \/ ends_with(atom.display_name, "::" \o func.name)

within_span(func, atom) ==
    atom.lines_start >= func.lines_start /\ atom.lines_start <= func.lines_end

line_diff(func, atom) == unsigned_abs(func.fn_line - atom.lines_start)

within_tolerance(func, atom) == line_diff(func, atom) <= LINE_TOLERANCE

\* Mutant of effective_diff: an atom inside the span but beyond the tolerance
\* counts as being at distance 0.
EffectiveDiffZeroInSpan(func, atom) ==
    IF within_span(func, atom) /\ ~within_tolerance(func, atom)
    THEN 0
    ELSE line_diff(func, atom)

effective_diff(func, atom) ==
    IF within_span(func, atom) /\ ~within_tolerance(func, atom)
    THEN unsigned_abs(func.fn_line - atom.lines_start)
    ELSE line_diff(func, atom)

\* Mutant of IsCandidate: the span is not looked at, only the tolerance.
IsCandidateWithinTolerance(func, atom) ==
    /\ path_matches(func, atom) /\ name_matches(func, atom)
    /\ within_tolerance(func, atom)

\* Mutant of IsCandidate: the path is not looked at.
IsCandidateAnyPath(func, atom) ==
    /\ name_matches(func, atom)
    /\ within_span(func, atom) \/ within_tolerance(func, atom)

\* if path_matches && name_matches { .. if within_span || within_tolerance
IsCandidate(func, atom) ==
    /\ path_matches(func, atom) /\ name_matches(func, atom)
    /\ within_span(func, atom) \/ within_tolerance(func, atom)

\* Mutant of Improves: an equal distance replaces the best match too.
ImprovesOrTies(diff, best_line_diff) == diff <= best_line_diff

\* if effective_diff < best_line_diff
Improves(diff, best_line_diff) == diff < best_line_diff

\* for (code_name, atom) in atoms: the loop over the keys still to visit, in
\* ascending order, with its break on a distance of 0.
RECURSIVE ScanAtoms(_, _, _, _)
ScanAtoms(func, atoms, rest, best) ==
    IF rest = {} THEN best
    ELSE LET code_name == FirstKey(rest)
             atom      == atoms[code_name]
             diff      == effective_diff(func, atom)
             found     == [best_match |-> Some(code_name),
                           best_line_diff |-> diff]
         IN  IF IsCandidate(func, atom) /\ Improves(diff, best.best_line_diff)
             THEN IF diff = 0 THEN found
                  ELSE ScanAtoms(func, atoms, rest \ {code_name}, found)
             ELSE ScanAtoms(func, atoms, rest \ {code_name}, best)

\* best_match.map(|s| s.to_string())
find_matching_atom(func, atoms) ==
    ScanAtoms(func, atoms, DOMAIN atoms,
              [best_match |-> None, best_line_diff |-> usize_MAX]).best_match

FmInit ==
    /\ MergeIdle
    /\ nz = NzIdle
    /\ cmd = CmdIdle
    /\ pm = PmIdle
    /\ mf = MfIdle
    /\ sc = ScIdle
    /\ \E func \in Funcs, atoms \in AtomMaps(MaxMatchAtoms) :
           fm = [FmIdle EXCEPT !.pc = "call", !.func = func, !.atoms = atoms]

\* The call of find_matching_atom(&func, atoms).
FindMatchingAtom ==
    /\ fm.pc = "call"
    /\ fm' = [fm EXCEPT !.pc = "returned",
                        !.result = find_matching_atom(fm.func, fm.atoms)]
    /\ UNCHANGED <<mergeVars, nz, cmd, pm, mf, sc>>

FmNext == FindMatchingAtom

FmSpec == FmInit /\ [][FmNext]_vars

(***************************************************************************)
(* Properties of find_matching_atom.                                       *)
(***************************************************************************)

\* The three predicates of identity resolution, for a function and an atom.
PathPredicate(func, atom) ==
    LET fp == IF func.file.some THEN func.file.value ELSE ""
        ap == atom.code_path
    IN  \/ ends_with(fp, ap)
        \/ ends_with(ap, fp)
        \/ extract_src_suffix(fp) = extract_src_suffix(ap)

NamePredicate(func, atom) ==
    \/ atom.display_name = func.name
    \/ ends_with(atom.display_name, "::" \o func.name)

Distance(func, atom) ==
    IF func.fn_line >= atom.lines_start
    THEN func.fn_line - atom.lines_start
    ELSE atom.lines_start - func.fn_line

LinePredicate(func, atom) ==
    \/ atom.lines_start \in func.lines_start..func.lines_end
    \/ Distance(func, atom) <= LINE_TOLERANCE

\* The keys of the atoms that satisfy all three predicates.
Satisfying(func, atoms) ==
    { k \in DOMAIN atoms :
          /\ PathPredicate(func, atoms[k])
          /\ NamePredicate(func, atoms[k])
          /\ LinePredicate(func, atoms[k]) }

\* C19: identity resolution is sound. Whenever find_matching_atom returns a
\* key, the key is in the map and the atom under it satisfies the path, the
\* name and the line predicate for the function; so an atom with a
\* mismatched path, or at a line beyond the tolerance and outside the span,
\* is never returned.
ResolutionSound ==
    (fm.pc = "returned" /\ fm.result.some) =>
        /\ fm.result.value \in DOMAIN fm.atoms
        /\ PathPredicate(fm.func, fm.atoms[fm.result.value])
        /\ NamePredicate(fm.func, fm.atoms[fm.result.value])
        /\ LinePredicate(fm.func, fm.atoms[fm.result.value])

\* The first atom visited has the name and the line of the function but the
\* path of another file, and the atom of the right file is the one returned.
ResolutionSoundReached ==
    /\ fm.pc = "returned"
    /\ fm.func.file.value = "src/e.rs"
    /\ fm.func.fn_line = 100
    /\ DOMAIN fm.atoms = {<<"f">>, <<"g">>}
    /\ fm.atoms[<<"f">>] = AtomEntry("add", "src/r.rs", 100)
    /\ fm.atoms[<<"g">>] = AtomEntry("T::add", "src/e.rs", 103)
    /\ fm.result = Some(<<"g">>)

\* The loop of find_matching_atom without its break: every atom is visited.
RECURSIVE ScanEveryAtom(_, _, _, _)
ScanEveryAtom(func, atoms, rest, best) ==
    IF rest = {} THEN best
    ELSE LET code_name == FirstKey(rest)
             atom      == atoms[code_name]
             diff      == effective_diff(func, atom)
         IN  IF IsCandidate(func, atom) /\ Improves(diff, best.best_line_diff)
             THEN ScanEveryAtom(func, atoms, rest \ {code_name},
                                [best_match |-> Some(code_name),
                                 best_line_diff |-> diff])
             ELSE ScanEveryAtom(func, atoms, rest \ {code_name}, best)

\* The satisfying atoms at the smallest distance from fn_line.
Closest(func, atoms) ==
    { k \in Satisfying(func, atoms) :
          \A j \in Satisfying(func, atoms) :
              Distance(func, atoms[k]) <= Distance(func, atoms[j]) }

\* C20: among the atoms that satisfy all three predicates,
\* find_matching_atom returns one at the smallest distance from fn_line,
\* and of those the one with the lexicographically smallest code_name; the
\* scan without the early exit returns the same key.
ReturnsClosestSmallestKey ==
    (fm.pc = "returned" /\ Satisfying(fm.func, fm.atoms) # {}) =>
        /\ fm.result.some
        /\ fm.result.value \in Closest(fm.func, fm.atoms)
        /\ \A j \in Closest(fm.func, fm.atoms) :
               j = fm.result.value \/ KeyLess(fm.result.value, j)
        /\ fm.result =
               ScanEveryAtom(fm.func, fm.atoms, DOMAIN fm.atoms,
                             [best_match |-> None,
                              best_line_diff |-> usize_MAX]).best_match

\* Two atoms satisfy the predicates at the same distance, three lines below
\* and three lines above the fn keyword: the smaller key was returned.
ClosestTieReached ==
    /\ fm.pc = "returned"
    /\ fm.func.file.some
    /\ fm.func.fn_line = 100
    /\ DOMAIN fm.atoms = {<<"f">>, <<"g">>}
    /\ fm.atoms[<<"f">>] = AtomEntry("T::add", "src/e.rs", 103)
    /\ fm.atoms[<<"g">>] = AtomEntry("T::add", "src/e.rs", 97)
    /\ fm.result = Some(<<"f">>)

\* C21: identity resolution is complete. find_matching_atom returns no
\* result exactly when no atom of the map satisfies all three predicates, so
\* an atom whose lines_start lies inside the span is matched even when it is
\* further than LINE_TOLERANCE from fn_line; and the call always returns.
ResolutionComplete ==
    /\ fm.pc = "call" => ENABLED FindMatchingAtom
    /\ fm.pc = "returned" =>
           (~fm.result.some <=> Satisfying(fm.func, fm.atoms) = {})

\* The only atom lies inside the span, six lines below the fn keyword, and
\* it was returned.
InSpanBeyondToleranceReached ==
    /\ fm.pc = "returned"
    /\ fm.func.file.some
    /\ fm.func.fn_line = 100
    /\ DOMAIN fm.atoms = {<<"f">>}
    /\ fm.atoms[<<"f">>] = AtomEntry("U::add", "src/e.rs", 106)
    /\ Distance(fm.func, fm.atoms[<<"f">>]) > LINE_TOLERANCE
    /\ fm.result = Some(<<"f">>)

\* The loop of find_matching_atom with line_diff in the place of
\* effective_diff.
RECURSIVE ScanWithLineDiff(_, _, _, _)
ScanWithLineDiff(func, atoms, rest, best) ==
    IF rest = {} THEN best
    ELSE LET code_name == FirstKey(rest)
             atom      == atoms[code_name]
             diff      == line_diff(func, atom)
             found     == [best_match |-> Some(code_name),
                           best_line_diff |-> diff]
         IN  IF IsCandidate(func, atom) /\ Improves(diff, best.best_line_diff)
             THEN IF diff = 0 THEN found
                  ELSE ScanWithLineDiff(func, atoms, rest \ {code_name}, found)
             ELSE ScanWithLineDiff(func, atoms, rest \ {code_name}, best)

\* C26: effective_diff equals line_diff, the distance |fn_line - lines_start|,
\* for every function and atom, whichever branch of its conditional is taken,
\* and find_matching_atom with line_diff in its place returns the same key.
EffectiveDiffIsLineDiff ==
    fm.pc = "returned" =>
        /\ \A k \in DOMAIN fm.atoms :
               /\ effective_diff(fm.func, fm.atoms[k])
                      = line_diff(fm.func, fm.atoms[k])
               /\ line_diff(fm.func, fm.atoms[k])
                      = Distance(fm.func, fm.atoms[k])
        /\ fm.result =
               ScanWithLineDiff(fm.func, fm.atoms, DOMAIN fm.atoms,
                                [best_match |-> None,
                                 best_line_diff |-> usize_MAX]).best_match

\* The first atom visited takes the first branch (inside the span, beyond
\* the tolerance), the second one the other branch, and the nearer one was
\* returned.
BothBranchesReached ==
    /\ fm.pc = "returned"
    /\ fm.func.file.some
    /\ fm.func.fn_line = 100
    /\ DOMAIN fm.atoms = {<<"f">>, <<"g">>}
    /\ fm.atoms[<<"f">>] = AtomEntry("U::add", "src/e.rs", 106)
    /\ fm.atoms[<<"g">>] = AtomEntry("T::add", "src/e.rs", 103)
    /\ fm.result = Some(<<"g">>)

\* A stub as atoms.json holds it: no source path and line 0.
IsStubEntry(atom) == atom.code_path = "" /\ atom.lines_start = 0

\* C28: find_matching_atom never returns the key of a stub atom for a
\* function with a non-empty file path and fn_line >= 1.
NeverBindsStub ==
    ( /\ fm.pc = "returned"
      /\ fm.func.file.some /\ fm.func.file.value # ""
      /\ fm.func.fn_line >= 1
      /\ fm.result.some )
        => ~IsStubEntry(fm.atoms[fm.result.value])

(***************************************************************************)
(* The key set of the merged map.                                          *)
(***************************************************************************)

\* The normalized keys of the first n input maps (of all, if there are fewer).
NormalizedKeys(n) ==
    UNION { { normalize_code_name(k) : k \in DOMAIN maps[i] } :
                i \in { j \in 1..n : j <= Len(maps) } }

\* C27: the key set of the map returned by merge_atoms_maps is exactly the
\* union of the normalized key sets of all input maps. After any number of
\* fold steps the base holds no key that no input supplied, and every
\* normalized key of the maps taken so far is in the base or still waiting in
\* the incoming map.
KeySetIsUnion ==
    /\ pc = "done" => DOMAIN base = NormalizedKeys(Len(maps))
    /\ pc \in {"next_map", "fold"} =>
           /\ DOMAIN base \subseteq NormalizedKeys(maps_iter - 1)
           /\ NormalizedKeys(maps_iter - 1)
                  = DOMAIN base \cup (IF pc = "fold" THEN DOMAIN incoming ELSE {})

\* The merge of three maps is done: a later map added a key the first did
\* not have, and a legacy key of an input is in the result in its normalized
\* form only.
KeySetIsUnionReached ==
    /\ pc = "done"
    /\ Len(maps) = 3
    /\ stats.atoms_added >= 1
    /\ DOMAIN base = {<<"f">>, <<"g">>}
    /\ \E i \in 2..3 : <<"f", ".">> \in DOMAIN maps[i]
    /\ <<"g">> \notin DOMAIN maps[1]

(***************************************************************************)
(* std::path::Path, as calculate_path_match_score uses it.                 *)
(***************************************************************************)

\* The pieces of s between its "/" separators, empty pieces included.
RECURSIVE SplitFrom(_, _, _, _)
SplitFrom(s, i, piece, acc) ==
    IF i > Len(s) THEN Append(acc, piece)
    ELSE IF SubSeq(s, i, i) = "/"
         THEN SplitFrom(s, i + 1, "", Append(acc, piece))
         ELSE SplitFrom(s, i + 1, piece \o SubSeq(s, i, i), acc)

has_root(s) == Len(s) > 0 /\ SubSeq(s, 1, 1) = "/"

\* Path::components: the root "/" if the path has one, then the pieces that
\* are neither empty nor ".", except a "." that starts a relative path.
RECURSIVE KeepComponents(_, _, _)
KeepComponents(pieces, i, rooted) ==
    IF i > Len(pieces) THEN << >>
    ELSE LET piece == pieces[i]
             keep  == piece # "" /\ (piece # "." \/ (i = 1 /\ ~rooted))
         IN  (IF keep THEN <<piece>> ELSE << >>)
                 \o KeepComponents(pieces, i + 1, rooted)

components(s) ==
    (IF has_root(s) THEN <<"/">> ELSE << >>)
        \o KeepComponents(SplitFrom(s, 1, "", << >>), 1, has_root(s))

\* Path::file_name: the last component if it is a normal one, None if the
\* path is empty or ends in the root, "." or "..".
file_name(s) ==
    LET c == components(s)
    IN  IF Len(c) = 0 \/ c[Len(c)] \in {"/", ".", ".."}
        THEN [some |-> FALSE, value |-> ""]
        ELSE [some |-> TRUE, value |-> c[Len(c)]]

(***************************************************************************)
(* Path matching (path_utils.rs).                                          *)
(***************************************************************************)

\* enum PathMatchScore, ordered by its discriminants.
ScoreNone == 0
FilenameOnly == 1
Suffix == 2
Exact == 3

calculate_path_match_score(query, candidate) ==
    IF components(query) = components(candidate) THEN Exact
    ELSE IF paths_match_by_suffix(query, candidate) THEN Suffix
    ELSE IF file_name(query) = file_name(candidate) THEN FilenameOnly
    ELSE ScoreNone

\* Mutant of ScoreImproves: an equal score replaces the best match too.
ScoreImprovesOrTies(score, best_score) == score >= best_score

\* if score > best_score
ScoreImproves(score, best_score) == score > best_score

\* find_best_matching_path: the loop from candidate i on, and the final test.
RECURSIVE BestPathFrom(_, _, _, _, _)
BestPathFrom(query, candidates, i, best_match, best_score) ==
    IF i > Len(candidates)
    THEN IF best_score > ScoreNone THEN best_match
         ELSE [some |-> FALSE, value |-> ""]
    ELSE LET candidate == candidates[i]
             score     == calculate_path_match_score(query, candidate)
         IN  IF score = Exact THEN [some |-> TRUE, value |-> candidate]
             ELSE IF ScoreImproves(score, best_score)
                  THEN BestPathFrom(query, candidates, i + 1,
                                    [some |-> TRUE, value |-> candidate], score)
                  ELSE BestPathFrom(query, candidates, i + 1,
                                    best_match, best_score)

find_best_matching_path(query, candidates) ==
    BestPathFrom(query, candidates, 1, [some |-> FALSE, value |-> ""],
                 ScoreNone)

\* PathMatcher::new(paths): the matcher keeps the paths as known_paths.
PathMatcher(paths) == [known_paths |-> paths]

\* PathMatcher::find_best_match: the loop over self.known_paths from path i
\* on, and the final test.
RECURSIVE KnownPathFrom(_, _, _, _, _)
KnownPathFrom(self, query, i, best_match, best_score) ==
    IF i > Len(self.known_paths)
    THEN IF best_score > ScoreNone THEN best_match
         ELSE [some |-> FALSE, value |-> ""]
    ELSE LET candidate == self.known_paths[i]
             score     == calculate_path_match_score(query, candidate)
         IN  IF score = Exact THEN [some |-> TRUE, value |-> candidate]
             ELSE IF ScoreImproves(score, best_score)
                  THEN KnownPathFrom(self, query, i + 1,
                                     [some |-> TRUE, value |-> candidate], score)
                  ELSE KnownPathFrom(self, query, i + 1,
                                     best_match, best_score)

find_best_match(self, query) ==
    KnownPathFrom(self, query, 1, [some |-> FALSE, value |-> ""], ScoreNone)

\* Longest generated path string, and most candidates of a list.
MaxPathLen == 3
MaxCandidates == 2

PathChars == {"a", "/", "."}

\* Every string of at most n characters of PathChars.
RECURSIVE ShortPaths(_)
ShortPaths(n) ==
    IF n = 0 THEN {""}
    ELSE ShortPaths(n - 1)
             \cup { s \o c : s \in ShortPaths(n - 1), c \in PathChars }

\* Paths as the tools report them: relative, absolute, with a doubled
\* separator, with "src" inside a longer component, with two /src/ segments.
ProjectPaths ==
    { "src/lib.rs", "/p/src/lib.rs", "src//lib.rs", "q/lib.rs", "lib.rs",
      "src/e.rs", "src/lib", "xsrc/lib", "a/src/b/src/c", "/src/" }

AllPaths == ProjectPaths \cup ShortPaths(MaxPathLen)

\* The paths candidate lists are made of.
ListPaths ==
    { "src/lib.rs", "/p/src/lib.rs", "src//lib.rs", "q/lib.rs", "lib.rs",
      "src/e.rs" }

CandidateLists ==
    { <<p>> : p \in AllPaths }
        \cup UNION { [1..n -> ListPaths] : n \in 0..MaxCandidates }

PmInit ==
    /\ MergeIdle
    /\ nz = NzIdle
    /\ cmd = CmdIdle
    /\ fm = FmIdle
    /\ mf = MfIdle
    /\ sc = ScIdle
    /\ \E query \in AllPaths, candidates \in CandidateLists :
           pm = [PmIdle EXCEPT !.pc = "call", !.query = query,
                               !.candidates = candidates]

\* extract_src_suffix(query).
ExtractSrcSuffix ==
    /\ pm.pc = "call"
    /\ pm' = [pm EXCEPT !.pc = "extract_src_suffix",
                        !.suffix = extract_src_suffix(pm.query)]
    /\ UNCHANGED <<mergeVars, nz, cmd, fm, mf, sc>>

\* paths_match_by_suffix(query, candidate).
PathsMatchBySuffix ==
    /\ pm.pc = "call"
    /\ Len(pm.candidates) >= 1
    /\ pm' = [pm EXCEPT !.pc = "paths_match_by_suffix",
                        !.matches = paths_match_by_suffix(pm.query,
                                                          pm.candidates[1])]
    /\ UNCHANGED <<mergeVars, nz, cmd, fm, mf, sc>>

\* calculate_path_match_score(query, candidate).
CalculatePathMatchScore ==
    /\ pm.pc = "call"
    /\ Len(pm.candidates) >= 1
    /\ pm' = [pm EXCEPT !.pc = "calculate_path_match_score",
                        !.score = calculate_path_match_score(pm.query,
                                                             pm.candidates[1])]
    /\ UNCHANGED <<mergeVars, nz, cmd, fm, mf, sc>>

\* find_best_matching_path(query, candidates).
FindBestMatchingPath ==
    /\ pm.pc = "call"
    /\ pm' = [pm EXCEPT !.pc = "find_best_matching_path",
                        !.best = find_best_matching_path(pm.query,
                                                         pm.candidates)]
    /\ UNCHANGED <<mergeVars, nz, cmd, fm, mf, sc>>

\* PathMatcher::new(candidates).find_best_match(query), after
\* find_best_matching_path on the same input.
PathMatcherFindBestMatch ==
    /\ pm.pc = "find_best_matching_path"
    /\ pm' = [pm EXCEPT !.pc = "find_best_match",
                        !.matcher_best = find_best_match(
                                             PathMatcher(pm.candidates),
                                             pm.query)]
    /\ UNCHANGED <<mergeVars, nz, cmd, fm, mf, sc>>

PmNext ==
    \/ ExtractSrcSuffix
    \/ PathsMatchBySuffix
    \/ CalculatePathMatchScore
    \/ FindBestMatchingPath
    \/ PathMatcherFindBestMatch

PmSpec == PmInit /\ [][PmNext]_vars

(***************************************************************************)
(* Properties of path matching.                                            *)
(***************************************************************************)

\* The candidate handed to the two-path operations.
Candidate == pm.candidates[1]

\* a is b with some string, possibly empty, put in front.
IsSuffixOf(b, a) ==
    \E k \in 0..Len(a) : SubSeq(a, k + 1, Len(a)) = b

\* The best result as the claim describes it: the first candidate, in list
\* order, whose score is the largest of all, none if that score is None.
FirstOfBestScore(query, candidates) ==
    LET score(i) == calculate_path_match_score(query, candidates[i])
        top      == { i \in 1..Len(candidates) :
                          \A j \in 1..Len(candidates) : score(j) <= score(i) }
    IN  IF \A i \in 1..Len(candidates) : score(i) = ScoreNone
        THEN [some |-> FALSE, value |-> ""]
        ELSE [some |-> TRUE,
              value |-> candidates[CHOOSE i \in top : \A j \in top : i <= j]]

\* C22: find_best_matching_path and PathMatcher::find_best_match both return
\* the first candidate in list order that achieves the maximum score over all
\* candidates, and no result exactly when every candidate scores None; the
\* two agree on every input.
BestMatchIsFirstOfBestScore ==
    /\ pm.pc \in {"find_best_matching_path", "find_best_match"} =>
           pm.best = FirstOfBestScore(pm.query, pm.candidates)
    /\ pm.pc = "find_best_match" =>
           /\ pm.matcher_best = FirstOfBestScore(pm.query, pm.candidates)
           /\ pm.matcher_best = pm.best

\* Both candidates score Suffix, and both operations returned the first.
FirstOfTwoSuffixReached ==
    /\ pm.pc = "find_best_match"
    /\ pm.query = "src/lib.rs"
    /\ pm.candidates = <<"lib.rs", "/p/src/lib.rs">>
    /\ pm.best = [some |-> TRUE, value |-> "lib.rs"]
    /\ pm.matcher_best = pm.best

\* The final component of a path, whatever its kind; none for the empty path.
FinalComponent(s) ==
    IF Len(components(s)) = 0 THEN << >>
    ELSE <<components(s)[Len(components(s))]>>

\* C23: calculate_path_match_score returns the highest level that applies:
\* Exact when the two paths are identical after path normalization, otherwise
\* Suffix when one string is a literal suffix of the other, otherwise
\* FilenameOnly when the final path components are equal, otherwise None.
ScoreIsHighestLevel ==
    pm.pc = "calculate_path_match_score" =>
        pm.score =
            IF components(pm.query) = components(Candidate) THEN Exact
            ELSE IF IsSuffixOf(pm.query, Candidate)
                    \/ IsSuffixOf(Candidate, pm.query) THEN Suffix
            ELSE IF /\ FinalComponent(pm.query) # << >>
                    /\ FinalComponent(pm.query) = FinalComponent(Candidate)
                 THEN FilenameOnly
            ELSE ScoreNone

\* What the function computes: the same cascade, with FilenameOnly for two
\* paths that have the same file name or that both have none.
ScoreCascade ==
    pm.pc = "calculate_path_match_score" =>
        pm.score =
            IF components(pm.query) = components(Candidate) THEN Exact
            ELSE IF IsSuffixOf(pm.query, Candidate)
                    \/ IsSuffixOf(Candidate, pm.query) THEN Suffix
            ELSE IF file_name(pm.query) = file_name(Candidate)
                 THEN FilenameOnly
            ELSE ScoreNone

\* C24: suffix comparison is a raw string suffix test in either direction.
\* paths_match_by_suffix holds exactly when one string ends with the other,
\* wherever in a path component the shorter one starts, and the score is
\* Suffix exactly when that holds and the paths are not Exact.
SuffixTestIsRaw ==
    /\ pm.pc = "paths_match_by_suffix" =>
           (pm.matches <=> \/ IsSuffixOf(pm.query, Candidate)
                           \/ IsSuffixOf(Candidate, pm.query))
    /\ pm.pc = "calculate_path_match_score" =>
           (pm.score = Suffix <=>
                /\ components(pm.query) # components(Candidate)
                /\ \/ IsSuffixOf(pm.query, Candidate)
                   \/ IsSuffixOf(Candidate, pm.query))

\* "xsrc/lib" was matched with "src/lib", which starts inside its first
\* component.
MidComponentMatchReached ==
    /\ pm.pc = "paths_match_by_suffix"
    /\ pm.query = "xsrc/lib"
    /\ Candidate = "src/lib"
    /\ pm.matches

\* The positions at which "/src/" occurs in a path.
SrcSegments(path) ==
    { i \in 1..Len(path) :
          i + 4 <= Len(path) /\ SubSeq(path, i, i + 4) = "/src/" }

\* C25: extract_src_suffix returns the substring that starts at the "src/"
\* of the first "/src/" segment of its input when there is one, and the
\* input unchanged otherwise (also when the input starts with "src/"); the
\* result is always a suffix of the input.
SrcSuffixExtracted ==
    pm.pc = "extract_src_suffix" =>
        /\ SrcSegments(pm.query) # {} =>
               \E i \in SrcSegments(pm.query) :
                   /\ \A j \in SrcSegments(pm.query) : i <= j
                   /\ pm.suffix = SubSeq(pm.query, i + 1, Len(pm.query))
                   /\ SubSeq(pm.suffix, 1, 4) = "src/"
        /\ SrcSegments(pm.query) = {} => pm.suffix = pm.query
        /\ IsSuffixOf(pm.suffix, pm.query)

\* The suffix of an absolute path was extracted.
SrcSuffixExtractedReached ==
    /\ pm.pc = "extract_src_suffix"
    /\ pm.query = "/p/src/lib.rs"
    /\ pm.suffix = "src/lib.rs"

(***************************************************************************)
(* match_functions_to_atoms (specify.rs).                                  *)
(***************************************************************************)

\* Most parsed functions, and most atoms in the map they are matched to.
MaxFuncs == 2
MaxMfAtoms == 1

\* The parsed functions of one file: those of Funcs, and a second method of
\* the same name three lines below the first.
ParsedFuncs ==
    { f \in Funcs : f.file = [some |-> TRUE, value |-> "src/e.rs"] }
        \cup { [name |-> "add", file |-> [some |-> TRUE, value |-> "src/e.rs"],
                fn_line |-> 103, lines_start |-> 101, lines_end |-> 112] }

MfInit ==
    /\ MergeIdle
    /\ nz = NzIdle
    /\ cmd = CmdIdle
    /\ fm = FmIdle
    /\ pm = PmIdle
    /\ sc = ScIdle
    /\ \E n \in 0..MaxFuncs :
           \E functions \in [1..n -> ParsedFuncs], atoms \in AtomMaps(MaxMfAtoms) :
               mf = [MfIdle EXCEPT !.pc = "loop", !.functions = functions,
                                   !.atoms = atoms]

\* for func in parsed.functions, with find_matching_atom returning
\* Some(code_name): output_map.insert(code_name, func); matched_count += 1.
MatchedFunction ==
    /\ mf.pc = "loop"
    /\ mf.next <= Len(mf.functions)
    /\ LET func   == mf.functions[mf.next]
           result == find_matching_atom(func, mf.atoms)
       IN  /\ result.some
           /\ mf' = [mf EXCEPT
                       !.output_map = MapInsert(@, result.value, func),
                       !.matched_count = @ + 1,
                       !.next = @ + 1]
    /\ UNCHANGED <<mergeVars, nz, cmd, fm, pm, sc>>

\* for func in parsed.functions, with find_matching_atom returning None:
\* unmatched_count += 1.
UnmatchedFunction ==
    /\ mf.pc = "loop"
    /\ mf.next <= Len(mf.functions)
    /\ ~find_matching_atom(mf.functions[mf.next], mf.atoms).some
    /\ mf' = [mf EXCEPT !.unmatched_count = @ + 1, !.next = @ + 1]
    /\ UNCHANGED <<mergeVars, nz, cmd, fm, pm, sc>>

\* The loop is over: (output_map, matched_count, unmatched_count) is returned.
ReturnMatches ==
    /\ mf.pc = "loop"
    /\ mf.next > Len(mf.functions)
    /\ mf' = [mf EXCEPT !.pc = "returned"]
    /\ UNCHANGED <<mergeVars, nz, cmd, fm, pm, sc>>

MfNext == MatchedFunction \/ UnmatchedFunction \/ ReturnMatches

MfSpec == MfInit /\ [][MfNext]_vars

\* C29: matched_count + unmatched_count equals the number of parsed
\* functions, and the number of entries of the returned map equals
\* matched_count.
CountsMatchReturnedMap ==
    mf.pc = "returned" =>
        /\ mf.matched_count + mf.unmatched_count = Len(mf.functions)
        /\ Cardinality(DOMAIN mf.output_map) = mf.matched_count

\* What holds of the counts: every function is counted once, and the
\* returned map has at most matched_count entries.
CountsCoverFunctions ==
    /\ mf.matched_count + mf.unmatched_count = mf.next - 1
    /\ mf.pc = "returned" => mf.next - 1 = Len(mf.functions)
    /\ Cardinality(DOMAIN mf.output_map) <= mf.matched_count

(***************************************************************************)
(* ScipCache::get_or_generate (scip_cache.rs).                             *)
(***************************************************************************)

\* How a spawned command ends: exit status 0, another exit status, or the
\* command could not be started.
CommandOutcomes == {"success", "failure", "spawn_error"}

\* What get_or_generate finds outside the program: whether the cached JSON
\* exists, which tools are in PATH, how the analyzer and scip end, whether
\* index.scip appears, whether the data directory is there or can be made,
\* whether the index can be moved, whether the index path is valid UTF-8 and
\* whether the JSON can be written.
Environments ==
    [json_exists : BOOLEAN, regenerate : BOOLEAN,
     analyzer_found : BOOLEAN, scip_found : BOOLEAN,
     analyzer_status : CommandOutcomes, index_generated : BOOLEAN,
     data_dir_ready : BOOLEAN, rename_ok : BOOLEAN,
     path_is_utf8 : BOOLEAN, print_status : CommandOutcomes,
     write_ok : BOOLEAN]

\* Result<(), ScipError> of a step, or its panic.
StepOk == [kind |-> "Ok", value |-> ""]
StepErr(e) == [kind |-> "Err", value |-> e]
StepPanic == [kind |-> "panic", value |-> ""]

\* check_prerequisites: both commands must be found by `which`.
check_prerequisites(env) ==
    IF ~env.analyzer_found THEN StepErr("AnalyzerNotFound")
    ELSE IF ~env.scip_found THEN StepErr("ScipCliNotFound")
    ELSE StepOk

\* generate_scip_index: run the analyzer, look for index.scip, make the data
\* directory if it is missing, move the index into it.
generate_scip_index(env) ==
    IF env.analyzer_status # "success" THEN StepErr("AnalyzerFailed")
    ELSE IF ~env.index_generated THEN StepErr("IndexNotGenerated")
    ELSE IF ~env.data_dir_ready THEN StepErr("CreateDirFailed")
    ELSE IF ~env.rename_ok THEN StepErr("MoveFileFailed")
    ELSE StepOk

\* convert_to_json: scip_path.to_str().unwrap() panics on a path that is not
\* UTF-8; then run `scip print --json` and write its output.
convert_to_json(env) ==
    IF ~env.path_is_utf8 THEN StepPanic
    ELSE IF env.print_status # "success" THEN StepErr("ScipPrintFailed")
    ELSE IF ~env.write_ok THEN StepErr("WriteJsonFailed")
    ELSE StepOk

\* The commands a step spawns, in order.
ToolsOfCheck(env) ==
    IF env.analyzer_found THEN <<"which", "which">> ELSE <<"which">>

ToolsOfConvert(env) == IF env.path_is_utf8 THEN <<"scip">> ELSE << >>

\* if json_path.exists() && !regenerate
UseCache(env) == env.json_exists /\ ~env.regenerate

ScInit ==
    /\ MergeIdle
    /\ nz = NzIdle
    /\ cmd = CmdIdle
    /\ fm = FmIdle
    /\ pm = PmIdle
    /\ mf = MfIdle
    /\ \E env \in Environments :
           sc = [ScIdle EXCEPT !.pc = "call", !.env = env]

\* return Ok(json_path) from the cache.
ReturnCached ==
    /\ sc.pc = "call"
    /\ UseCache(sc.env)
    /\ sc' = [sc EXCEPT !.pc = "returned",
                        !.result = [kind |-> "Ok", value |-> "json_path"]]
    /\ UNCHANGED <<mergeVars, nz, cmd, fm, pm, mf>>

\* self.check_prerequisites()?
CheckPrerequisites ==
    /\ sc.pc = "call"
    /\ ~UseCache(sc.env)
    /\ LET r == check_prerequisites(sc.env)
       IN  sc' = [sc EXCEPT
                    !.ran = Append(@, "check_prerequisites"),
                    !.tools = @ \o ToolsOfCheck(sc.env),
                    !.pc = IF r.kind = "Ok" THEN "generate" ELSE "returned",
                    !.result = IF r.kind = "Ok" THEN @ ELSE r]
    /\ UNCHANGED <<mergeVars, nz, cmd, fm, pm, mf>>

\* Mutant of GenerateScipIndex: the error of generate_scip_index is dropped
\* and the conversion goes ahead.
GenerateScipIndexUnchecked ==
    /\ sc.pc = "generate"
    /\ sc' = [sc EXCEPT !.ran = Append(@, "generate_scip_index"),
                        !.tools = Append(@, "analyzer"),
                        !.pc = "convert"]
    /\ UNCHANGED <<mergeVars, nz, cmd, fm, pm, mf>>

\* self.generate_scip_index(verbose)?
GenerateScipIndex ==
    /\ sc.pc = "generate"
    /\ LET r == generate_scip_index(sc.env)
       IN  sc' = [sc EXCEPT
                    !.ran = Append(@, "generate_scip_index"),
                    !.tools = Append(@, "analyzer"),
                    !.pc = IF r.kind = "Ok" THEN "convert" ELSE "returned",
                    !.result = IF r.kind = "Ok" THEN @ ELSE r]
    /\ UNCHANGED <<mergeVars, nz, cmd, fm, pm, mf>>

\* self.convert_to_json(verbose)?; Ok(json_path)
ConvertToJson ==
    /\ sc.pc = "convert"
    /\ LET r == convert_to_json(sc.env)
       IN  sc' = [sc EXCEPT
                    !.ran = Append(@, "convert_to_json"),
                    !.tools = @ \o ToolsOfConvert(sc.env),
                    !.pc = IF r.kind = "panic" THEN "panicked" ELSE "returned",
                    !.result = IF r.kind = "Ok"
                               THEN [kind |-> "Ok", value |-> "json_path"]
                               ELSE r]
    /\ UNCHANGED <<mergeVars, nz, cmd, fm, pm, mf>>

ScNext ==
    \/ ReturnCached
    \/ CheckPrerequisites
    \/ GenerateScipIndex
    \/ ConvertToJson

ScSpec == ScInit /\ [][ScNext]_vars

\* The three steps in the order of the claim, and what each gives.
Steps == <<"check_prerequisites", "generate_scip_index", "convert_to_json">>

StepResult(i) ==
    IF i = 1 THEN check_prerequisites(sc.env)
    ELSE IF i = 2 THEN generate_scip_index(sc.env)
    ELSE convert_to_json(sc.env)

====
